---------------------------- MODULE Spec2Model ----------------------------
(***************************************************************************)
(* Model of scripts/ai-code-reviewer.py: the unified-diff parser            *)
(* (parse_diff_for_review), the per-file inline review                      *)
(* (review_file_inline, post_inline_comment) and the run as a whole         *)
(* (module startup, main, fetch_pr_files, should_review_file,               *)
(* generate_architectural_summary, post_summary_comment).                   *)
(*                                                                         *)
(* Two specifications share the module:                                     *)
(*   SpecParse  one call of parse_diff_for_review, one loop iteration per   *)
(*              step, over a bounded set of patches;                        *)
(*   Spec       one run of the script, one step per external call.          *)
(***************************************************************************)
EXTENDS Integers, Sequences, FiniteSets, TLC

(***************************************************************************)
(* Program constants.                                                       *)
(***************************************************************************)
MAX_COMMENTS_PER_FILE == 5

CONTEXT_LIMIT == 300

(***************************************************************************)
(* Bounds of the model.                                                     *)
(***************************************************************************)
MaxPatchLen == 4

MaxPad == 1

MaxFiles == 2

MaxExtra == 2

(***************************************************************************)
(* Strings are sequences of one-character strings, so that startswith,      *)
(* endswith, strip and slicing are computed and not assumed.                *)
(***************************************************************************)
MinOf(a, b) == IF a <= b THEN a ELSE b

StartsWith(s, prefix) ==
    /\ Len(s) >= Len(prefix)
    /\ SubSeq(s, 1, Len(prefix)) = prefix

EndsWith(s, suffix) ==
    /\ Len(s) >= Len(suffix)
    /\ SubSeq(s, Len(s) - Len(suffix) + 1, Len(s)) = suffix

Rep(x, n) == [i \in 1..n |-> x]

(***************************************************************************)
(* parse_diff_for_review.                                                   *)
(*                                                                         *)
(* A patch is the list patch.split('\n').  A line is its text together      *)
(* with the outcome of re.search(r'@@ .* \+(\d+)(,\d+)? @@', line), which   *)
(* the code evaluates only for lines that start with '@@': re_match tells   *)
(* whether the pattern matched and re_start is int(match.group(1)).         *)
(***************************************************************************)
TextLine(t) == [text |-> t, re_match |-> FALSE, re_start |-> 0]

HunkLine(s) == [text |-> <<"@", "@", " ">>, re_match |-> TRUE, re_start |-> s]

BadHunkLine == [text |-> <<"@", "@">>, re_match |-> FALSE, re_start |-> 0]

AddedB == TextLine(<<"+", "b">>)

ContextA == TextLine(<<" ", "a">>)

ContextC == TextLine(<<" ", "c">>)

RemovedC == TextLine(<<"-", "c">>)

EmptyLine == TextLine(<<>>)

HunkStarts == {0, 10}

PatchLines ==
    {HunkLine(s) : s \in HunkStarts}
        \cup {BadHunkLine, AddedB, ContextA, RemovedC, EmptyLine}

RECURSIVE SeqsOver(_, _)
SeqsOver(S, n) ==
    IF n = 0 THEN {<<>>}
    ELSE LET shorter == SeqsOver(S, n - 1)
         IN  shorter \cup {Append(p, x) : p \in {q \in shorter : Len(q) = n - 1}, x \in S}

ShortPatches == SeqsOver(PatchLines, MaxPatchLen) \ {<<>>}

\* The example of the specification: '@@ -1,3 +10,3 @@', ' a', '+b', ' c'.
ExamplePatch == <<HunkLine(10), ContextA, AddedB, ContextC>>

\* Patches around the CONTEXT_LIMIT: a header, c context lines, a added lines.
LongPatch(c, a) == <<HunkLine(10)>> \o Rep(ContextA, c) \o Rep(AddedB, a)

LongPatches ==
    {LongPatch(c, 1) : c \in (CONTEXT_LIMIT - 1)..(CONTEXT_LIMIT + MaxPad)}
        \cup {LongPatch(0, a) : a \in (CONTEXT_LIMIT - 1)..(CONTEXT_LIMIT + MaxPad)}

ParsePatches == ShortPatches \cup {ExamplePatch} \cup LongPatches

\* The locals of parse_diff_for_review before the loop.
ParseStart ==
    [new_line_number |-> 0, context_lines |-> <<>>, valid_comment_lines |-> {}]

\* match.group(1) - 1
HunkCounterOffByOne(start) == start

HunkCounter(start) == start - 1

ParseLineCountingOthers(st, line) ==
    IF StartsWith(line.text, <<"@", "@">>) THEN
        IF line.re_match
        THEN [st EXCEPT !.new_line_number = HunkCounter(line.re_start)]
        ELSE st
    ELSE IF StartsWith(line.text, <<"+">>) THEN
        [new_line_number |-> st.new_line_number + 1,
         context_lines |->
            Append(st.context_lines,
                   [line_number |-> st.new_line_number + 1,
                    content |-> Tail(line.text),
                    type |-> "added"]),
         valid_comment_lines |->
            st.valid_comment_lines \cup {st.new_line_number + 1}]
    ELSE IF StartsWith(line.text, <<" ">>) THEN
        [new_line_number |-> st.new_line_number + 1,
         context_lines |->
            Append(st.context_lines,
                   [line_number |-> st.new_line_number + 1,
                    content |-> Tail(line.text),
                    type |-> "context"]),
         valid_comment_lines |-> st.valid_comment_lines]
    ELSE [st EXCEPT !.new_line_number = @ + 1]

\* One iteration of "for line in lines".
ParseLine(st, line) ==
    IF StartsWith(line.text, <<"@", "@">>) THEN
        IF line.re_match
        THEN [st EXCEPT !.new_line_number = HunkCounter(line.re_start)]
        ELSE st
    ELSE IF StartsWith(line.text, <<"+">>) THEN
        [new_line_number |-> st.new_line_number + 1,
         context_lines |->
            Append(st.context_lines,
                   [line_number |-> st.new_line_number + 1,
                    content |-> Tail(line.text),
                    type |-> "added"]),
         valid_comment_lines |->
            st.valid_comment_lines \cup {st.new_line_number + 1}]
    ELSE IF StartsWith(line.text, <<" ">>) THEN
        [new_line_number |-> st.new_line_number + 1,
         context_lines |->
            Append(st.context_lines,
                   [line_number |-> st.new_line_number + 1,
                    content |-> Tail(line.text),
                    type |-> "context"]),
         valid_comment_lines |-> st.valid_comment_lines]
    ELSE st

\* return context_lines[:300], valid_comment_lines
ParseResult(st) ==
    [context_lines |->
        SubSeq(st.context_lines, 1, MinOf(Len(st.context_lines), CONTEXT_LIMIT)),
     valid_comment_lines |-> st.valid_comment_lines]

\* The loop over lines[lo..hi], halving the range to keep the evaluation shallow.
RECURSIVE ParseLines(_, _, _, _)
ParseLines(st, ls, lo, hi) ==
    IF lo > hi THEN st
    ELSE IF lo = hi THEN ParseLine(st, ls[lo])
    ELSE LET mid == (lo + hi) \div 2
         IN  ParseLines(ParseLines(st, ls, lo, mid), ls, mid + 1, hi)

parse_diff_for_review(patch) ==
    ParseResult(ParseLines(ParseStart, patch, 1, Len(patch)))

AddedLines(cl) == {cl[i].line_number : i \in {j \in 1..Len(cl) : cl[j].type = "added"}}


(***************************************************************************)
(* Module startup (environment validation, REPO.split('/')).                *)
(***************************************************************************)
\* The variables of the all([...]) test other than GITHUB_REPOSITORY.
OtherRequiredEnv == {"GITHUB_TOKEN", "OPENAI_API_KEY", "PR_NUMBER", "PR_HEAD_SHA"}

\* Values of GITHUB_REPOSITORY: unset or empty, owner/repo, and one with no '/'.
RepoValues == {<<>>, <<"o", "/", "r">>, <<"o", "r">>}

CountChar(s, c) == Cardinality({i \in 1..Len(s) : s[i] = c})

\* len(REPO.split('/'))
SplitParts(s) == CountChar(s, "/") + 1

EnvCompleteRepoOnly(present, repo) == repo # <<>>

\* all([GITHUB_TOKEN, OPENAI_API_KEY, PR_NUMBER, REPO, COMMIT_SHA])
EnvComplete(present, repo) == present = OtherRequiredEnv /\ repo # <<>>

\* The outcome of the module-level code before main(): "exit1" is exit(1),
\* "error" the ValueError of "OWNER, REPO_NAME = REPO.split('/')".
StartupOutcome(present, repo) ==
    IF ~EnvComplete(present, repo) THEN "exit1"
    ELSE IF SplitParts(repo) # 2 THEN "error"
    ELSE "main"

(***************************************************************************)
(* Changed files.  A filename is a sequence of tokens; "pattern in          *)
(* filename" is the presence of the pattern among the tokens.               *)
(***************************************************************************)
EXCLUDE_PATTERNS ==
    {".xcodeproj", ".xcworkspace", ".xcassets", ".pbxproj", ".xcuserstate",
     ".xcscheme", ".xcbkptlist", ".xcscmblueprint", ".xccheckout",
     ".storyboard", ".xib", ".nib",
     ".plist", ".entitlements", ".mobileprovision", ".p12", ".cer",
     ".lock", "Package.resolved", "Package.pins",
     ".png", ".jpg", ".jpeg", ".gif", ".svg", ".pdf", ".ico", ".icns",
     ".mp3", ".mp4", ".m4v", ".mov", ".wav", ".aiff",
     ".md", ".txt", ".rtf",
     ".json", ".yaml", ".yml", ".xml", ".csv", ".sqlite", ".db",
     "Generated", "Derived", "DerivedData", ".derived",
     "xcuserdata", "UserInterfaceState.xcuserstate",
     ".zip", ".tar", ".gz", ".rar", ".7z",
     ".swp", ".tmp", "~", ".bak",
     ".framework", ".dylib", ".a",
     ".ipa", ".app", ".dSYM"}

Contains(filename, pattern) == \E i \in 1..Len(filename) : filename[i] = pattern

\* Two added lines (11, 12) after one context line (10).
ReviewPatch == <<HunkLine(10), ContextA, AddedB, AddedB>>

\* Context only: nothing to comment on.
ContextOnlyPatch == <<HunkLine(10), ContextA>>

ChangedFile(name, status, has_patch, patch) ==
    [filename |-> name, status |-> status, has_patch |-> has_patch, patch |-> patch]

FooSwift == ChangedFile(<<"Foo", ".swift">>, "modified", TRUE, ReviewPatch)

BarSwift == ChangedFile(<<"Bar", ".swift">>, "added", TRUE, ContextOnlyPatch)

OldSwift == ChangedFile(<<"Old", ".swift">>, "removed", TRUE, ReviewPatch)

LogoPng == ChangedFile(<<"Logo", ".png">>, "added", TRUE, ReviewPatch)

\* Every line of the file was removed: the parsed sequence is empty.
GoneSwift == ChangedFile(<<"Gone", ".swift">>, "modified", TRUE, <<HunkLine(0), RemovedC>>)

\* No 'patch' key (a binary or too large file), and a patch that is ''.
NoPatchSwift == ChangedFile(<<"NoPatch", ".swift">>, "modified", FALSE, <<>>)

EmptyPatchSwift == ChangedFile(<<"EmptyPatch", ".swift">>, "renamed", TRUE, <<EmptyLine>>)

FetchedFiles ==
    {FooSwift, BarSwift, OldSwift, LogoPng, GoneSwift, NoPatchSwift, EmptyPatchSwift}

FileLists == SeqsOver(FetchedFiles, MaxFiles)

\* not file_data.get('patch'): no 'patch' key, or '' (which splits into one
\* empty line)
PatchMissing(file_data) == ~file_data.has_patch \/ file_data.patch = <<EmptyLine>>

should_review_fileKeepingRemoved(file_data) ==
    IF \E pattern \in EXCLUDE_PATTERNS : Contains(file_data.filename, pattern) THEN FALSE
    ELSE IF PatchMissing(file_data) THEN FALSE
    ELSE TRUE

should_review_file(file_data) ==
    IF file_data.status = "removed" THEN FALSE
    ELSE IF \E pattern \in EXCLUDE_PATTERNS : Contains(file_data.filename, pattern) THEN FALSE
    ELSE IF PatchMissing(file_data) THEN FALSE
    ELSE TRUE

\* [f for f in files if should_review_file(f)]
FilesToReview(fs) == SelectSeq(fs, should_review_file)

(***************************************************************************)
(* Comment text.                                                            *)
(***************************************************************************)
Whitespace == {" "}

RECURSIVE LStrip(_)
LStrip(s) == IF s # <<>> /\ Head(s) \in Whitespace THEN LStrip(Tail(s)) ELSE s

RECURSIVE RStrip(_)
RStrip(s) ==
    IF s # <<>> /\ s[Len(s)] \in Whitespace THEN RStrip(SubSeq(s, 1, Len(s) - 1)) ELSE s

\* str.strip()
Strip(s) == RStrip(LStrip(s))

Terminals == {".", "!", "?"}

\* comment_text.endswith(('.', '!', '?'))
EndsWithTerminal(s) == \E t \in Terminals : EndsWith(s, <<t>>)

EnsureSentenceEndingNever(comment_text) == comment_text

\* "if comment_text and not comment_text.endswith(...): comment_text += '.'"
EnsureSentenceEnding(comment_text) ==
    IF comment_text # <<>> /\ ~EndsWithTerminal(comment_text)
    THEN Append(comment_text, ".")
    ELSE comment_text

(***************************************************************************)
(* The suggestion model's answers.  An answer is what json.loads makes of   *)
(* the content once the code fences are removed, or the way the call or     *)
(* the parse fails.  An entry of an array is a JSON value: an object with   *)
(* or without the keys 'line' and 'comment', a number, or a string that     *)
(* contains neither key.                                                    *)
(***************************************************************************)
Entry(shape, has_line, has_comment, line, is_str, comment) ==
    [shape |-> shape, has_line |-> has_line, has_comment |-> has_comment,
     line |-> line, comment_is_str |-> is_str, comment |-> comment]

Suggestion(line, comment) == Entry("object", TRUE, TRUE, line, TRUE, comment)

Ok == <<"o", "k">>

BaseEntry == Suggestion(11, Ok)

OddEntries ==
    {Suggestion(12, <<"o", "k", ".">>),
     Suggestion(12, <<" ", "o", "k", "!", " ">>),
     Suggestion(12, <<"o", "k", "?">>),
     Suggestion(12, <<>>),
     Suggestion(12, <<" ">>),
     Suggestion(10, Ok),
     Suggestion(99, Ok),
     Entry("object", TRUE, TRUE, 12, FALSE, <<>>),
     Entry("object", FALSE, TRUE, 0, TRUE, Ok),
     Entry("object", TRUE, FALSE, 12, TRUE, <<>>),
     Entry("number", FALSE, FALSE, 0, FALSE, <<>>),
     Entry("string", FALSE, FALSE, 0, FALSE, <<>>)}

MaxResp == MAX_COMMENTS_PER_FILE + MaxExtra

\* Arrays of up to MaxResp entries, all the base entry but at most one.
ArrayBodies ==
    {Rep(BaseEntry, n) : n \in 0..MaxResp}
        \cup UNION {{[Rep(BaseEntry, n) EXCEPT ![p] = e] : p \in 1..n, e \in OddEntries} :
                        n \in 1..MaxResp}

AiResponse(kind, entries) == [kind |-> kind, entries |-> entries]

\* "raise": the API call raises; "no_content": message.content is None;
\* "not_json": json.loads raises JSONDecodeError; "not_array": a JSON value
\* that is not a list (here a single suggestion object); "array": a list.
AiResponses ==
    {AiResponse("raise", <<>>), AiResponse("no_content", <<>>),
     AiResponse("not_json", <<>>), AiResponse("not_array", <<BaseEntry>>)}
        \cup {AiResponse("array", b) : b \in ArrayBodies}

NotCalled == AiResponse("not_called", <<>>)

\* The answers that are no JSON array: the call raised or the parse failed.
FailedAnswers == {"raise", "no_content", "not_json", "not_array"}

JsonArrayEntriesLenient(ai) ==
    IF ai.kind \in {"array", "not_array"} THEN [is_list |-> TRUE, entries |-> ai.entries]
    ELSE [is_list |-> FALSE, entries |-> <<>>]

\* isinstance(suggestions, list), and the list
JsonArrayEntries(ai) ==
    IF ai.kind = "array" THEN [is_list |-> TRUE, entries |-> ai.entries]
    ELSE [is_list |-> FALSE, entries |-> <<>>]

\* "key in suggestion" raises TypeError for a number
KeyTestRaises(e) == e.shape = "number"

\* all(key in suggestion for key in ['line', 'comment'])
HasBothKeys(e) == e.shape = "object" /\ e.has_line /\ e.has_comment

LineAcceptedAnyDiffLine(line_number, parsed) ==
    \E i \in 1..Len(parsed.context_lines) : parsed.context_lines[i].line_number = line_number

\* not (line_number not in valid_comment_lines)
LineAccepted(line_number, parsed) == line_number \in parsed.valid_comment_lines

\* The loop "for suggestion in suggestions" from entry i on, valid_suggestions
\* being acc: the list at the end of the loop, or the TypeError that ends it.
RECURSIVE FilterSuggestions(_, _, _, _)
FilterSuggestions(entries, i, acc, parsed) ==
    IF i > Len(entries) THEN [raised |-> FALSE, valid_suggestions |-> acc]
    ELSE IF KeyTestRaises(entries[i]) THEN [raised |-> TRUE, valid_suggestions |-> acc]
    ELSE IF ~HasBothKeys(entries[i]) THEN FilterSuggestions(entries, i + 1, acc, parsed)
    ELSE IF ~LineAccepted(entries[i].line, parsed)
        THEN FilterSuggestions(entries, i + 1, acc, parsed)
    ELSE IF Len(acc) + 1 >= MAX_COMMENTS_PER_FILE
        THEN [raised |-> FALSE, valid_suggestions |-> Append(acc, entries[i])]
    ELSE FilterSuggestions(entries, i + 1, Append(acc, entries[i]), parsed)

\* Reading the file: read, FileNotFoundError or UnicodeDecodeError (the patch
\* stands in for the content), or another OSError, which review_file_inline
\* does not catch.
ReadOutcomes == {"ok", "fallback", "oserror"}

\* review_file_inline up to the first inline post: how the review of the
\* file stands, the answer of the model if it was called, valid_suggestions.
ReviewResult(state, ai, valid) ==
    [state |-> state, ai |-> ai, valid_suggestions |-> valid]

ReviewOutcomeNoSkip(parsed, rd, ai) ==
    IF rd = "oserror" THEN ReviewResult("read_error", NotCalled, <<>>)
    ELSE IF ai.kind \in {"raise", "no_content"} THEN ReviewResult("call_failed", ai, <<>>)
    ELSE IF ai.kind = "not_json" THEN ReviewResult("bad_json", ai, <<>>)
    ELSE IF ~JsonArrayEntries(ai).is_list THEN ReviewResult("not_array", ai, <<>>)
    ELSE LET flt == FilterSuggestions(JsonArrayEntries(ai).entries, 1, <<>>, parsed)
         IN  IF flt.raised THEN ReviewResult("filter_error", ai, <<>>)
             ELSE IF flt.valid_suggestions = <<>> THEN ReviewResult("posted", ai, <<>>)
             ELSE ReviewResult("posting", ai, flt.valid_suggestions)

ReviewOutcome(parsed, rd, ai) ==
    IF rd = "oserror" THEN ReviewResult("read_error", NotCalled, <<>>)
    ELSE IF parsed.context_lines = <<>> THEN ReviewResult("no_context", NotCalled, <<>>)
    ELSE IF AddedLines(parsed.context_lines) = {} THEN ReviewResult("no_added", NotCalled, <<>>)
    ELSE IF ai.kind \in {"raise", "no_content"} THEN ReviewResult("call_failed", ai, <<>>)
    ELSE IF ai.kind = "not_json" THEN ReviewResult("bad_json", ai, <<>>)
    ELSE IF ~JsonArrayEntries(ai).is_list THEN ReviewResult("not_array", ai, <<>>)
    ELSE LET flt == FilterSuggestions(JsonArrayEntries(ai).entries, 1, <<>>, parsed)
         IN  IF flt.raised THEN ReviewResult("filter_error", ai, <<>>)
             ELSE IF flt.valid_suggestions = <<>> THEN ReviewResult("posted", ai, <<>>)
             ELSE ReviewResult("posting", ai, flt.valid_suggestions)

\* What one call of review_file_inline meets: the outcome of the read and the
\* answer of the model (which is not asked after an OSError).
ReviewInputs ==
    {<<"oserror", NotCalled>>}
        \cup {<<rd, ai>> : rd \in ReadOutcomes \ {"oserror"}, ai \in AiResponses}

\* Responses of the hosting API to a POST; "raise" is a requests exception.
Statuses == {"201", "403", "422", "500", "raise"}

InlineRequest(path, line, body) == [path |-> path, line |-> line, body |-> body]

\* The POST requests one call of post_inline_comment issues.
InlinePostRequests(req, status) == <<req>>

AfterFileSummaryFirst(i, n) == [pc |-> "summary_gen", file_i |-> i]

\* Where the loop of main goes after file i of n: the next file or the summary.
AfterFile(i, n) ==
    IF i < n THEN [pc |-> "review", file_i |-> i + 1]
    ELSE [pc |-> "summary_gen", file_i |-> i]

(***************************************************************************)
(* The summary.                                                             *)
(***************************************************************************)
Filenames(fs) == [i \in 1..Len(fs) |-> fs[i].filename]

\* The content handed to post_summary_comment: "no_files" is the static text
\* for a PR with nothing to review, "generated" the model's analysis,
\* "analysis_error" the text generate_architectural_summary returns when the
\* model call raises, "simple" main's simplified fallback.
SummaryContent(kind, fs) == [kind |-> kind, files |-> Filenames(fs)]

NoContent == [kind |-> "none", files |-> <<>>]

FirstPostResultNoRetry(status) == IF status = "201" THEN "true" ELSE "false"

\* post_summary_comment after its first POST: return True, return False, or
\* sleep and retry.
FirstPostResult(status) ==
    IF status = "201" THEN "true"
    ELSE IF status = "403" THEN "retry"
    ELSE "false"

NeedsFallbackAlways(kind, success) == kind \in {"generated", "analysis_error"}

\* "if not success" after post_summary_comment(summary) in main
NeedsFallback(kind, success) == kind \in {"generated", "analysis_error"} /\ ~success

AfterFetchSilent(fs) ==
    IF fs = <<>> THEN "exit"
    ELSE IF FilesToReview(fs) = <<>> THEN "exit"
    ELSE "review"

\* main after fetch_pr_files: return, post the static summary, or review.
AfterFetch(fs) ==
    IF fs = <<>> THEN "exit"
    ELSE IF FilesToReview(fs) = <<>> THEN "summary_post"
    ELSE "review"

(***************************************************************************)
(* categorize_file.  A filename is a sequence of tokens and a content the    *)
(* set of the words that occur in it; "x in filename" and "x in content"     *)
(* hold when a token or word is x or has x inside it.                        *)
(***************************************************************************)
\* <<x, w>>: x occurs inside the token or word w.
SubstringPairs ==
    {<<"Test", "/Tests/">>, <<"View", "UIView">>, <<"XCTest", "XCTestCase">>}

Within(x, w) == x = w \/ <<x, w>> \in SubstringPairs

\* x in filename, for an x that lies within one token
InFilename(x, filename) == \E i \in 1..Len(filename) : Within(x, filename[i])

\* x in filename, for an x of several tokens
SeqInFilename(x, filename) ==
    \E i \in 1..Len(filename) :
        i + Len(x) - 1 <= Len(filename) /\ SubSeq(filename, i, i + Len(x) - 1) = x

\* x in content
InContent(x, content) == \E w \in content : Within(x, w)

\* filename.endswith('.swift')
EndsWithSwift(filename) == EndsWith(filename, <<".swift">>)

\* get_file_context_info: has_ui_tests, has_unit_tests
HasUiTests(content) ==
    InContent("XCUIApplication", content) \/ InContent("XCUIElement", content)

HasUnitTests(content) == InContent("XCTestCase", content) \/ InContent("@testable", content)

TEST_KEYWORDS == {"XCTest", "@testable", "XCTAssert", "XCUIApplication"}

\* The test of lines 211-218.
HasTestMarker(filename, content) ==
    \/ EndsWith(filename, <<"Test", ".swift">>)
    \/ InFilename("/Tests/", filename)
    \/ InFilename("Test", filename)
    \/ InFilename("Mock", filename)
    \/ InFilename("Stub", filename)
    \/ HasUiTests(content)
    \/ HasUnitTests(content)
    \/ \E keyword \in TEST_KEYWORDS : InContent(keyword, content)

SWIFTUI_INDICATORS ==
    {"import SwiftUI", "SwiftUI.", "View", "@State", "@Binding",
     "@ObservableObject", "@Observable", "@StateObject", "@EnvironmentObject",
     "NavigationView", "NavigationStack", "VStack", "HStack", "ZStack",
     "Button", "Text", "Image", "ScrollView", "List", "Form",
     "NavigationSplitView", "Grid", "LazyVStack", "LazyHStack"}

UIKIT_INDICATORS ==
    {"import UIKit", "UIView", "UIViewController", "UITableView",
     "UICollectionView", "UIButton", "UILabel", "UIImageView",
     "viewDidLoad", "viewWillAppear", "IBOutlet", "IBAction",
     "UINavigationController", "UITabBarController", "UIStoryboard"}

HasSwiftUIMarker(content) == \E indicator \in SWIFTUI_INDICATORS : InContent(indicator, content)

HasUIKitMarker(content) == \E indicator \in UIKIT_INDICATORS : InContent(indicator, content)

\* filename in ['AppDelegate.swift', 'SceneDelegate.swift', 'App.swift']
APP_ENTRY_FILENAMES ==
    {<<"AppDelegate", ".swift">>, <<"SceneDelegate", ".swift">>, <<"App", ".swift">>}

IsAppEntry(filename) == filename \in APP_ENTRY_FILENAMES

CONFIG_FILES ==
    {<<".plist">>, <<".xcconfig">>, <<".json">>, <<".yaml">>, <<".yml">>,
     <<"Package", ".swift">>, <<"Podfile">>, <<"Cartfile">>, <<".entitlements">>}

\* any(filename.endswith(ext) or ext in filename for ext in config_files)
MatchesConfig(filename) ==
    \E ext \in CONFIG_FILES : EndsWith(filename, ext) \/ SeqInFilename(ext, filename)

categorize_fileConfigFirst(filename, content) ==
    IF HasTestMarker(filename, content) THEN "Test"
    ELSE IF MatchesConfig(filename) THEN "Config"
    ELSE IF EndsWithSwift(filename) THEN
        IF HasSwiftUIMarker(content) THEN "SwiftUI"
        ELSE IF HasUIKitMarker(content) THEN "UI"
        ELSE IF IsAppEntry(filename) THEN
            (IF InContent("@main", content) THEN "SwiftUI" ELSE "UI")
        ELSE "Swift"
    ELSE "Swift"

categorize_file(filename, content) ==
    IF HasTestMarker(filename, content) THEN "Test"
    ELSE IF EndsWithSwift(filename) THEN
        IF HasSwiftUIMarker(content) THEN "SwiftUI"
        ELSE IF HasUIKitMarker(content) THEN "UI"
        ELSE IF IsAppEntry(filename) THEN
            (IF InContent("@main", content) THEN "SwiftUI" ELSE "UI")
        ELSE "Swift"
    ELSE IF MatchesConfig(filename) THEN "Config"
    ELSE "Swift"

\* The filenames and the words of the contents categorize_file is applied to.
CatFilenames ==
    {<<"Foo", ".swift">>, <<"Foo", "Test", ".swift">>, <<"Pkg", "/Tests/", "Foo", ".swift">>,
     <<"Mock", "Api", ".swift">>, <<"Stub", ".json">>,
     <<"App", ".swift">>, <<"AppDelegate", ".swift">>, <<"Sources/", "App", ".swift">>,
     <<"Package", ".swift">>, <<"Package", ".swift", ".orig">>,
     <<"Info", ".plist">>, <<"Podfile">>, <<"Makefile">>}

ContentWords ==
    {"import SwiftUI", "View", "UIView", "viewDidLoad", "XCTestCase", "@main", "let x"}

CatContents == SUBSET ContentWords

VARIABLES
    lines,                \* parse_diff_for_review: patch.split('\n')
    line_idx,             \* number of lines the loop has processed
    new_line_number,
    context_lines,
    valid_comment_lines,
    parse_pc,             \* "idle" | "loop" | "returned"
    parse_ret,            \* the returned pair, once returned
    pc,                   \* "idle" | "startup" | "fetch" | "review" | "posting" |
                          \* "file_done" | "summary_gen" | "summary_post" |
                          \* "summary_retry" | "exit"
    env_present,          \* the required variables that are set, but for REPO
    repo,                 \* GITHUB_REPOSITORY
    exit_code,            \* the exit code, once pc = "exit"
    fetch_result,         \* "none" | "raised" | "non200" | "ok"
    files,                \* main: files
    files_to_review,      \* main: files_to_review
    file_i,               \* main: the file the loop is at (1-based)
    files_reviewed,       \* calls of review_file_inline made so far
    review_state,         \* how review_file_inline stands or ended for file_i
    ai_result,            \* the suggestion model's answer for file_i
    valid_suggestions,    \* review_file_inline: valid_suggestions
    post_k,               \* suggestions the posting loop is through with
    inline_posts,         \* the inline-comment POST requests issued for file_i
    failed_at,            \* the first file whose model call or parse failed, or 0
    summary_model_calls,  \* calls of the summary model
    summary_content,      \* the content post_summary_comment is posting
    summary_posts,        \* the summary-comment POST requests, with their status
    cat_filename,         \* categorize_file: filename
    cat_content,          \* categorize_file: content
    cat_pc,               \* "idle" | "call" | "returned"
    category              \* the value categorize_file returned

parseVars ==
    <<lines, line_idx, new_line_number, context_lines, valid_comment_lines,
      parse_pc, parse_ret>>

envVars == <<env_present, repo>>

fileVars == <<files, files_to_review, file_i>>

reviewVars ==
    <<files_reviewed, review_state, ai_result, valid_suggestions, post_k, inline_posts,
      failed_at>>

summaryVars == <<summary_model_calls, summary_content, summary_posts>>

mainVars == <<pc, envVars, exit_code, fetch_result, fileVars, reviewVars, summaryVars>>

catVars == <<cat_filename, cat_content, cat_pc, category>>

vars == <<parseVars, mainVars, catVars>>

(***************************************************************************)
(* SpecParse: one call of parse_diff_for_review.                            *)
(***************************************************************************)
ParseLocals ==
    [new_line_number |-> new_line_number,
     context_lines |-> context_lines,
     valid_comment_lines |-> valid_comment_lines]

NoResult == [context_lines |-> <<>>, valid_comment_lines |-> {}]

ParseIdle ==
    /\ lines = <<>>
    /\ line_idx = 0
    /\ new_line_number = 0
    /\ context_lines = <<>>
    /\ valid_comment_lines = {}
    /\ parse_pc = "idle"
    /\ parse_ret = NoResult

MainStart(p) ==
    /\ pc = p
    /\ exit_code = 0
    /\ fetch_result = "none"
    /\ files = <<>>
    /\ files_to_review = <<>>
    /\ file_i = 0
    /\ files_reviewed = 0
    /\ review_state = "none"
    /\ ai_result = NotCalled
    /\ valid_suggestions = <<>>
    /\ post_k = 0
    /\ inline_posts = <<>>
    /\ failed_at = 0
    /\ summary_model_calls = 0
    /\ summary_content = NoContent
    /\ summary_posts = <<>>

CatIdle ==
    /\ cat_filename = <<>>
    /\ cat_content = {}
    /\ cat_pc = "idle"
    /\ category = "none"

InitParse ==
    /\ lines \in ParsePatches
    /\ line_idx = 0
    /\ new_line_number = ParseStart.new_line_number
    /\ context_lines = ParseStart.context_lines
    /\ valid_comment_lines = ParseStart.valid_comment_lines
    /\ parse_pc = "loop"
    /\ parse_ret = NoResult
    /\ env_present = OtherRequiredEnv
    /\ repo = <<"o", "/", "r">>
    /\ MainStart("idle")
    /\ CatIdle

ParseLoopStep ==
    /\ parse_pc = "loop"
    /\ line_idx < Len(lines)
    /\ LET st == ParseLine(ParseLocals, lines[line_idx + 1])
       IN  /\ new_line_number' = st.new_line_number
           /\ context_lines' = st.context_lines
           /\ valid_comment_lines' = st.valid_comment_lines
    /\ line_idx' = line_idx + 1
    /\ UNCHANGED <<lines, parse_pc, parse_ret, mainVars, catVars>>

ParseReturn ==
    /\ parse_pc = "loop"
    /\ line_idx = Len(lines)
    /\ parse_ret' = ParseResult(ParseLocals)
    /\ parse_pc' = "returned"
    /\ UNCHANGED <<lines, line_idx, new_line_number, context_lines, valid_comment_lines>>
    /\ UNCHANGED <<mainVars, catVars>>

NextParse == ParseLoopStep \/ ParseReturn

SpecParse == InitParse /\ [][NextParse]_vars

(***************************************************************************)
(* SpecReviewFile: one call of review_file_inline from the parse of the     *)
(* patch to the model call: the loop of parse_diff_for_review, one          *)
(* iteration per step, its return, then the two skip tests and the call.    *)
(* The file was read (or the patch stands in for it) before the parse.      *)
(***************************************************************************)
\* The answers the model call is given here: it raises, [], one suggestion.
DecisionAnswers ==
    {AiResponse("raise", <<>>), AiResponse("array", <<>>), AiResponse("array", <<BaseEntry>>)}

ReviewDecision ==
    /\ parse_pc = "returned"
    /\ \E rd \in ReadOutcomes \ {"oserror"}, ai \in DecisionAnswers :
        LET r == ReviewOutcome(parse_ret, rd, ai)
        IN  /\ review_state' = r.state
            /\ ai_result' = r.ai
            /\ valid_suggestions' = r.valid_suggestions
    /\ parse_pc' = "reviewed"
    /\ UNCHANGED <<lines, line_idx, new_line_number, context_lines, valid_comment_lines,
                   parse_ret, envVars, exit_code, fetch_result, fileVars, files_reviewed,
                   post_k, inline_posts, failed_at, summaryVars, pc, catVars>>

NextReviewFile == ParseLoopStep \/ ParseReturn \/ ReviewDecision

SpecReviewFile == InitParse /\ [][NextReviewFile]_vars

(***************************************************************************)
(* SpecCategorize: one call of categorize_file.                             *)
(***************************************************************************)
InitCategorize ==
    /\ ParseIdle
    /\ env_present = OtherRequiredEnv
    /\ repo = <<"o", "/", "r">>
    /\ MainStart("idle")
    /\ cat_filename \in CatFilenames
    /\ cat_content \in CatContents
    /\ cat_pc = "call"
    /\ category = "none"

Categorize ==
    /\ cat_pc = "call"
    /\ category' = categorize_file(cat_filename, cat_content)
    /\ cat_pc' = "returned"
    /\ UNCHANGED <<cat_filename, cat_content, parseVars, mainVars>>

NextCategorize == Categorize

SpecCategorize == InitCategorize /\ [][NextCategorize]_vars

(***************************************************************************)
(* Spec: one run of the script.                                             *)
(***************************************************************************)
Init ==
    /\ ParseIdle
    /\ env_present \in SUBSET OtherRequiredEnv
    /\ repo \in RepoValues
    /\ MainStart("startup")
    /\ CatIdle

\* Lines 55-76: exit(1) on a missing variable, an uncaught ValueError when
\* REPO does not split in two, else on to asyncio.run(main()).
Startup ==
    /\ pc = "startup"
    /\ LET o == StartupOutcome(env_present, repo)
       IN  /\ pc' = IF o = "main" THEN "fetch" ELSE "exit"
           /\ exit_code' = IF o = "main" THEN 0 ELSE 1
    /\ UNCHANGED <<envVars, fetch_result, fileVars, reviewVars, summaryVars, parseVars, catVars>>

\* fetch_pr_files raises (requests.get or response.json()): nothing in main
\* catches it and asyncio.run lets it through.
FetchRaises ==
    /\ pc = "fetch"
    /\ fetch_result' = "raised"
    /\ pc' = "exit"
    /\ exit_code' = 1
    /\ UNCHANGED <<envVars, fileVars, reviewVars, summaryVars, parseVars, catVars>>

\* fetch_pr_files returns [] on a status other than 200, else the list; main
\* filters it and returns, posts the static summary, or starts the reviews.
FetchReturns ==
    /\ pc = "fetch"
    /\ \E fs \in FileLists, ok \in BOOLEAN :
        LET got == IF ok THEN fs ELSE <<>>
            nxt == AfterFetch(got)
        IN  /\ fetch_result' = IF ok THEN "ok" ELSE "non200"
            /\ files' = got
            /\ files_to_review' = IF got = <<>> THEN <<>> ELSE FilesToReview(got)
            /\ pc' = nxt
            /\ file_i' = IF nxt = "review" THEN 1 ELSE 0
            /\ summary_content' =
                  IF nxt = "summary_post" THEN SummaryContent("no_files", <<>>)
                  ELSE summary_content
    /\ exit_code' = 0
    /\ UNCHANGED <<envVars, reviewVars, summary_model_calls, summary_posts, parseVars, catVars>>

\* review_file_inline for files_to_review[file_i], up to its first inline
\* post, and main's handler around it.
ReviewFile ==
    /\ pc = "review"
    /\ \E inp \in ReviewInputs :
        LET rd == inp[1]
            ai == inp[2]
            parsed == parse_diff_for_review(files_to_review[file_i].patch)
            r == ReviewOutcome(parsed, rd, ai)
        IN  /\ review_state' = r.state
            /\ ai_result' = r.ai
            /\ valid_suggestions' = r.valid_suggestions
            /\ failed_at' =
                  IF failed_at = 0 /\ r.ai.kind \in FailedAnswers
                  THEN file_i ELSE failed_at
            /\ pc' = IF r.state = "posting" THEN "posting" ELSE "file_done"
    /\ files_reviewed' = files_reviewed + 1
    /\ post_k' = 0
    /\ inline_posts' = <<>>
    /\ UNCHANGED <<envVars, exit_code, fetch_result, fileVars, summaryVars, parseVars, catVars>>

\* One iteration of "for i, suggestion in enumerate(valid_suggestions)":
\* suggestion['comment'].strip() raises for a comment that is no string and
\* the handler of review_file_inline ends the file; else one call of
\* post_inline_comment.
PostInline ==
    /\ pc = "posting"
    /\ LET s == valid_suggestions[post_k + 1]
           last == post_k + 1 = Len(valid_suggestions)
       IN  IF ~s.comment_is_str
           THEN /\ review_state' = "post_error"
                /\ pc' = "file_done"
                /\ UNCHANGED <<post_k, inline_posts>>
           ELSE \E status \in Statuses :
                /\ inline_posts' =
                      inline_posts \o
                         InlinePostRequests(
                            InlineRequest(files_to_review[file_i].filename, s.line,
                                          EnsureSentenceEnding(Strip(s.comment))),
                            status)
                /\ post_k' = post_k + 1
                /\ review_state' = IF last THEN "posted" ELSE "posting"
                /\ pc' = IF last THEN "file_done" ELSE "posting"
    /\ UNCHANGED <<envVars, exit_code, fetch_result, fileVars, files_reviewed,
                   ai_result, valid_suggestions, failed_at, summaryVars, parseVars, catVars>>

\* The end of one iteration of "for i, file_data in enumerate(files_to_review, 1)":
\* review_file_inline has returned or main's handler has caught its exception,
\* and its locals are gone.
NextFile ==
    /\ pc = "file_done"
    /\ LET nxt == AfterFile(file_i, Len(files_to_review))
       IN  pc' = nxt.pc /\ file_i' = nxt.file_i
    /\ review_state' = "none"
    /\ ai_result' = NotCalled
    /\ valid_suggestions' = <<>>
    /\ post_k' = 0
    /\ inline_posts' = <<>>
    /\ UNCHANGED <<envVars, exit_code, fetch_result, files, files_to_review,
                   files_reviewed, failed_at, summaryVars, parseVars, catVars>>

\* generate_architectural_summary: the model's text, or its own fallback
\* text when the call raises.
GenerateSummary ==
    /\ pc = "summary_gen"
    /\ \E ok \in BOOLEAN :
        summary_content' =
            SummaryContent(IF ok THEN "generated" ELSE "analysis_error", files_to_review)
    /\ summary_model_calls' = summary_model_calls + 1
    /\ pc' = "summary_post"
    /\ UNCHANGED <<envVars, exit_code, fetch_result, fileVars, reviewVars, summary_posts,
                   parseVars, catVars>>

\* What main does once post_summary_comment(summary_content) has returned.
SummaryPosted(success) ==
    IF NeedsFallback(summary_content.kind, success)
    THEN /\ summary_content' = SummaryContent("simple", files_to_review)
         /\ pc' = "summary_post"
    ELSE /\ pc' = "exit"
         /\ UNCHANGED summary_content

\* post_summary_comment: the first POST.
PostSummary ==
    /\ pc = "summary_post"
    /\ \E status \in Statuses :
        /\ summary_posts' =
              Append(summary_posts,
                     [content |-> summary_content, attempt |-> "first", status |-> status])
        /\ LET r == FirstPostResult(status)
           IN  IF r = "retry"
               THEN pc' = "summary_retry" /\ UNCHANGED summary_content
               ELSE SummaryPosted(r = "true")
    /\ UNCHANGED <<envVars, exit_code, fetch_result, fileVars, reviewVars,
                   summary_model_calls, parseVars, catVars>>

\* post_summary_comment: the retry after a 403.
RetrySummary ==
    /\ pc = "summary_retry"
    /\ \E status \in Statuses :
        /\ summary_posts' =
              Append(summary_posts,
                     [content |-> summary_content, attempt |-> "retry", status |-> status])
        /\ SummaryPosted(status = "201")
    /\ UNCHANGED <<envVars, exit_code, fetch_result, fileVars, reviewVars,
                   summary_model_calls, parseVars, catVars>>

Next ==
    \/ Startup
    \/ FetchRaises
    \/ FetchReturns
    \/ ReviewFile
    \/ PostInline
    \/ NextFile
    \/ GenerateSummary
    \/ PostSummary
    \/ RetrySummary

Spec == Init /\ [][Next]_vars

(***************************************************************************)
(* Properties.                                                              *)
(***************************************************************************)
\* The file under review, its parse, and the end of its review.
ReviewedFile == files_to_review[file_i]

ReviewedParse == parse_diff_for_review(ReviewedFile.patch)

ReviewEnded == pc = "file_done"

\* A valid suggestion in the sense of the specification: an object with both
\* fields whose line is in ValidCommentLines.
ValidEntry(e, parsed) ==
    /\ e.shape = "object"
    /\ e.has_line
    /\ e.has_comment
    /\ e.line \in parsed.valid_comment_lines

\* C1: every inline-comment POST issued for a file carries that file's path
\* and a line number that is in the ValidCommentLines parse_diff_for_review
\* returns for the file's patch; a suggestion with another line is not posted.
C1_PostedLinesAreValid ==
    \A k \in 1..Len(inline_posts) :
        /\ inline_posts[k].path = ReviewedFile.filename
        /\ inline_posts[k].line \in ReviewedParse.valid_comment_lines

\* A review that posted comments although the answer held a suggestion for a
\* line that is not valid.
C1_Witness ==
    /\ ReviewEnded
    /\ review_state = "posted"
    /\ inline_posts # <<>>
    /\ \E j \in 1..Len(ai_result.entries) :
          /\ HasBothKeys(ai_result.entries[j])
          /\ ai_result.entries[j].line \notin ReviewedParse.valid_comment_lines

\* C2: when the answer is a JSON array with N > MAX_COMMENTS_PER_FILE valid
\* suggestions s1..sN, the inline posts of the file are s1..s_MAX, one request
\* each, in that order; in every case at most MAX_COMMENTS_PER_FILE inline
\* posts are issued for a file.
C2_TruncationInOrder ==
    (ReviewEnded /\ ai_result.kind = "array") =>
        LET IsValid(e) == ValidEntry(e, ReviewedParse)
            v == SelectSeq(ai_result.entries, IsValid)
        IN  /\ Len(inline_posts) <= MAX_COMMENTS_PER_FILE
            /\ Len(v) > MAX_COMMENTS_PER_FILE =>
                  /\ Len(inline_posts) = MAX_COMMENTS_PER_FILE
                  /\ \A k \in 1..MAX_COMMENTS_PER_FILE : inline_posts[k].line = v[k].line

\* C3: the line numbers of the returned DiffLine records of type 'added' are
\* exactly the returned ValidCommentLines, for every patch.
C3_AddedEqualsValid ==
    parse_pc = "returned" =>
        AddedLines(parse_ret.context_lines) = parse_ret.valid_comment_lines

\* An added-or-context line, and a hunk header the pattern matches.
Recorded(l) ==
    /\ ~StartsWith(l.text, <<"@", "@">>)
    /\ StartsWith(l.text, <<"+">>) \/ StartsWith(l.text, <<" ">>)

WellFormedHeader(l) == StartsWith(l.text, <<"@", "@">>) /\ l.re_match

MaxOfSet(S) == CHOOSE m \in S : \A x \in S : x <= m

\* C4: after a well-formed hunk header with new-file start s, the k-th
\* following added-or-context line is recorded with line number s + k - 1,
\* removed lines not counting; line numbers go up by one from one record to
\* the next unless a hunk header lies between them; the example patch
\* '@@ -1,3 +10,3 @@', ' a', '+b', ' c' gives (10, context), (11, added),
\* (12, context) and ValidCommentLines = {11}.
C4_LineNumbering ==
    /\ (line_idx >= 1 /\ Recorded(lines[line_idx])) =>
          LET j == line_idx
              n == Cardinality({i \in 1..j : Recorded(lines[i])})
              hs == {h \in 1..j : WellFormedHeader(lines[h])}
              before == {i \in 1..(j - 1) : Recorded(lines[i])}
          IN  /\ Len(context_lines) = n
              /\ context_lines[n].type =
                    (IF StartsWith(lines[j].text, <<"+">>) THEN "added" ELSE "context")
              /\ hs # {} =>
                    LET h == MaxOfSet(hs)
                        k == Cardinality({i \in (h + 1)..j : Recorded(lines[i])})
                    IN  context_lines[n].line_number = lines[h].re_start + k - 1
              /\ before # {} =>
                    LET p == MaxOfSet(before)
                    IN  (\A h \in (p + 1)..(j - 1) : ~WellFormedHeader(lines[h])) =>
                            context_lines[n].line_number
                                = context_lines[n - 1].line_number + 1
    /\ (parse_pc = "returned" /\ lines = ExamplePatch) =>
          parse_ret =
             [context_lines |->
                 <<[line_number |-> 10, content |-> <<"a">>, type |-> "context"],
                   [line_number |-> 11, content |-> <<"b">>, type |-> "added"],
                   [line_number |-> 12, content |-> <<"c">>, type |-> "context"]>>,
              valid_comment_lines |-> {11}]

\* A hunk at 10 with a removed line between an added and a context line.
C4_Witness ==
    /\ parse_pc = "returned"
    /\ lines = <<HunkLine(10), AddedB, RemovedC, ContextA>>
    /\ Len(parse_ret.context_lines) = 2
    /\ parse_ret.context_lines[2].line_number = 11

GeneratedKinds == {"generated", "analysis_error"}

\* C6: a 403 on the first POST of the generated summary is followed by one
\* retry of the same content and by no other; a retry that is not answered
\* 201 is followed by the POST of the simplified summary, and after an
\* accepted retry nothing more is posted.  A retry is issued only after a 403.
C6_RetryThenFallback ==
    \A j \in 1..Len(summary_posts) :
        /\ (/\ summary_posts[j].content.kind \in GeneratedKinds
            /\ summary_posts[j].attempt = "first"
            /\ summary_posts[j].status = "403") =>
              IF j = Len(summary_posts)
              THEN pc = "summary_retry" /\ summary_content = summary_posts[j].content
              ELSE /\ summary_posts[j + 1].attempt = "retry"
                   /\ summary_posts[j + 1].content = summary_posts[j].content
                   /\ summary_posts[j + 1].status = "201" =>
                         j + 1 = Len(summary_posts) /\ pc = "exit"
                   /\ summary_posts[j + 1].status # "201" =>
                         IF j + 1 = Len(summary_posts)
                         THEN pc = "summary_post" /\ summary_content.kind = "simple"
                         ELSE /\ summary_posts[j + 2].content.kind = "simple"
                              /\ summary_posts[j + 2].attempt = "first"
        /\ summary_posts[j].attempt = "retry" =>
              /\ j > 1
              /\ summary_posts[j - 1].attempt = "first"
              /\ summary_posts[j - 1].status = "403"

\* The generated summary is answered 403, its retry fails, the simplified
\* summary is posted.
C6_Witness ==
    /\ Len(summary_posts) >= 3
    /\ summary_posts[1].content.kind = "generated"
    /\ summary_posts[1].status = "403"
    /\ summary_posts[2].attempt = "retry"
    /\ summary_posts[2].status = "500"
    /\ summary_posts[3].content.kind = "simple"

\* C7: when the suggestion model call raises or its answer is no JSON array,
\* no inline comment is posted for the file; the files after it get their
\* review, one after the other; and the summary is generated and posted once
\* the last file is through.
C7_FailedCallIsNotFatal ==
    /\ ai_result.kind \in FailedAnswers => inline_posts = <<>> /\ pc = "file_done"
    /\ (failed_at > 0 /\ pc = "review") =>
          file_i = files_reviewed + 1 /\ file_i <= Len(files_to_review)
    /\ (failed_at > 0 /\ pc \in {"summary_gen", "summary_post", "summary_retry", "exit"}) =>
          files_reviewed = Len(files_to_review)
    /\ (failed_at > 0 /\ pc \in {"summary_post", "summary_retry", "exit"}) =>
          summary_model_calls = 1
    /\ (failed_at > 0 /\ pc = "exit") => summary_posts # <<>>

\* The first of two files failed, the second got its comments.
C7_Witness ==
    /\ failed_at = 1
    /\ file_i = 2
    /\ pc = "file_done"
    /\ review_state = "posted"
    /\ inline_posts # <<>>

\* C8: once main runs, no failure of an external call lets an exception
\* escape: the process ends with exit code 0.
C8_AlwaysExitZero == (pc = "exit" /\ fetch_result # "none") => exit_code = 0

AllWhitespace(s) == \A i \in 1..Len(s) : s[i] \in Whitespace

\* C9, as stated: every inline comment body posted ends with '.', '!' or '?'.
C9_BodyEndsWithTerminal ==
    \A k \in 1..Len(inline_posts) : EndsWithTerminal(inline_posts[k].body)

\* C9, amended: the body posted for a comment that has a character other
\* than whitespace ends with '.', '!' or '?'; a comment that is empty or
\* only whitespace is posted as the empty string.
C9_NonEmptyBodyEndsWithTerminal ==
    \A k \in 1..Len(inline_posts) :
        IF AllWhitespace(valid_suggestions[k].comment)
        THEN inline_posts[k].body = <<>>
        ELSE EndsWithTerminal(inline_posts[k].body)

\* A comment without punctuation got its period, an empty one went out empty.
C9_Witness ==
    /\ \E k \in 1..Len(inline_posts) :
          /\ valid_suggestions[k].comment = Ok
          /\ inline_posts[k].body = <<"o", "k", ".">>
    /\ \E k \in 1..Len(inline_posts) :
          /\ valid_suggestions[k].comment = <<" ">>
          /\ inline_posts[k].body = <<>>

\* C10: no summary-comment POST follows one that was answered 201, so at most
\* one is accepted in a run; when the first is accepted the run ends with
\* that one request; the summary model is called at most once.
C10_NoPostAfterAccepted ==
    /\ \A j \in 1..(Len(summary_posts) - 1) : summary_posts[j].status # "201"
    /\ (summary_posts # <<>> /\ summary_posts[Len(summary_posts)].status = "201") =>
          pc = "exit"
    /\ summary_model_calls <= 1

\* The generated summary was accepted at once.
C10_Witness ==
    /\ pc = "exit"
    /\ summary_model_calls = 1
    /\ Len(summary_posts) = 1
    /\ summary_posts[1].content.kind = "generated"
    /\ summary_posts[1].status = "201"

\* C11: categorize_file returns, for every filename and content, the
\* category of the first rule that matches: Test for a test marker in the
\* filename or the content; else, for a filename ending in '.swift', SwiftUI
\* for a SwiftUI marker, else UI for a UIKit marker, else for the app-entry
\* filenames SwiftUI with the entry-point marker and UI without, else Swift;
\* else Config for a filename of the configuration set; else Swift.
C11_FirstMatchingRule ==
    cat_pc = "returned" =>
        LET f == cat_filename
            c == cat_content
            test == HasTestMarker(f, c)
            swift == EndsWithSwift(f)
        IN  /\ category \in {"Test", "SwiftUI", "UI", "Config", "Swift"}
            /\ test => category = "Test"
            /\ (~test /\ swift /\ HasSwiftUIMarker(c)) => category = "SwiftUI"
            /\ (~test /\ swift /\ ~HasSwiftUIMarker(c) /\ HasUIKitMarker(c)) => category = "UI"
            /\ (~test /\ swift /\ ~HasSwiftUIMarker(c) /\ ~HasUIKitMarker(c) /\ IsAppEntry(f)) =>
                  category = (IF InContent("@main", c) THEN "SwiftUI" ELSE "UI")
            /\ (~test /\ swift /\ ~HasSwiftUIMarker(c) /\ ~HasUIKitMarker(c) /\ ~IsAppEntry(f)) =>
                  category = "Swift"
            /\ (~test /\ ~swift /\ MatchesConfig(f)) => category = "Config"
            /\ (~test /\ ~swift /\ ~MatchesConfig(f)) => category = "Swift"

\* Package.swift with no marker in its content: the '.swift' rules come
\* before the configuration set.
C11_Witness ==
    /\ cat_pc = "returned"
    /\ cat_filename = <<"Package", ".swift">>
    /\ cat_content = {"let x"}
    /\ category = "Swift"

\* C12: when one of the required environment inputs is missing or empty,
\* the run ends with a non-zero exit status and no network call is made:
\* no file-list fetch, no model call, no inline or summary post.
C12_MissingEnvExitsBeforeNetwork ==
    (env_present # OtherRequiredEnv \/ repo = <<>>) =>
        /\ pc \in {"startup", "exit"}
        /\ pc = "exit" => exit_code # 0
        /\ fetch_result = "none"
        /\ files_reviewed = 0
        /\ ai_result = NotCalled
        /\ inline_posts = <<>>
        /\ summary_model_calls = 0
        /\ summary_posts = <<>>

C12_Witness ==
    /\ pc = "exit"
    /\ env_present = OtherRequiredEnv \ {"PR_NUMBER"}
    /\ repo = <<"o", "/", "r">>
    /\ exit_code = 1
    /\ fetch_result = "none"

\* a is b with some elements left out, the others in the order of b.
RECURSIVE IsSubsequence(_, _)
IsSubsequence(a, b) ==
    IF a = <<>> THEN TRUE
    ELSE IF b = <<>> THEN FALSE
    ELSE IF Head(a) = Head(b) THEN IsSubsequence(Tail(a), Tail(b))
    ELSE IsSubsequence(a, Tail(b))

\* The line and the body an entry of the answer is posted with, if it is.
PostOfEntry(e) ==
    IF e.shape = "object" /\ e.has_line /\ e.has_comment /\ e.comment_is_str
    THEN <<e.line, EnsureSentenceEnding(Strip(e.comment))>>
    ELSE <<-1, <<>>>>

ReviewStage == {"review", "posting", "file_done"}

SummaryStage == {"summary_gen", "summary_post", "summary_retry", "exit"}

C13_Order ==
    /\ IsSubsequence(files_to_review, files)
    /\ pc = "review" => files_reviewed = file_i - 1
    /\ pc \in {"posting", "file_done"} => files_reviewed = file_i
    /\ pc \in {"summary_gen", "summary_post", "summary_retry"} =>
          files_reviewed = Len(files_to_review)
    /\ inline_posts # <<>> => pc \in {"posting", "file_done"} /\ ai_result.kind = "array"
    /\ IsSubsequence([k \in 1..Len(inline_posts) |->
                          <<inline_posts[k].line, inline_posts[k].body>>],
                     [k \in 1..Len(ai_result.entries) |-> PostOfEntry(ai_result.entries[k])])

C13_Step ==
    /\ file_i' \in {file_i, file_i + 1}
    /\ file_i' = file_i + 1 => pc \in {"fetch", "file_done"}
    /\ (ai_result = NotCalled /\ ai_result' # NotCalled) =>
          pc = "review" /\ file_i' = file_i /\ files_reviewed' = file_i
    /\ (inline_posts' # inline_posts /\ inline_posts' # <<>>) =>
          /\ pc = "posting" /\ file_i' = file_i /\ ai_result' = ai_result
          /\ SubSeq(inline_posts', 1, Len(inline_posts)) = inline_posts
          /\ Len(inline_posts') = Len(inline_posts) + 1
          /\ inline_posts'[Len(inline_posts')].path = files_to_review[file_i].filename
    /\ (summary_model_calls' # summary_model_calls \/ summary_posts' # summary_posts) =>
          /\ pc \in SummaryStage
          /\ files_reviewed = Len(files_to_review)
    /\ pc \in SummaryStage =>
          pc' \in SummaryStage /\ files_reviewed' = files_reviewed /\ inline_posts' = <<>>

\* C13: files are reviewed one after the other in the order of the fetched
\* list, which the filter keeps: the model call and the inline posts of file
\* i come while file i is the current one, the loop then moves to file i + 1
\* and never back; the summary model call and the summary posts come once
\* every file has been reviewed, and nothing is reviewed after them; the
\* inline posts of a file follow the order of the entries of the answer.
C13_FilesAndPostsInOrder == []C13_Order /\ [][C13_Step]_vars

\* The second file of the list, after a skipped first one, with two comments
\* posted in the order of the answer.
C13_Witness ==
    /\ pc = "file_done"
    /\ files = <<BarSwift, FooSwift>>
    /\ file_i = 2
    /\ Len(ai_result.entries) = 2
    /\ ai_result.entries[2].line = 12
    /\ Len(inline_posts) = 2
    /\ inline_posts[1].line = 11
    /\ inline_posts[2].line = 12

\* C14: when the answer is a JSON array with an entry that is not valid (a
\* missing 'line' or 'comment', an entry that is no object, a line that is
\* not in ValidCommentLines), that entry alone is dropped: the inline posts
\* of the file are the valid entries of the answer, in order, up to
\* MAX_COMMENTS_PER_FILE.
C14_InvalidEntriesDroppedAlone ==
    (/\ ReviewEnded
     /\ ai_result.kind = "array"
     /\ \E k \in 1..Len(ai_result.entries) : ~ValidEntry(ai_result.entries[k], ReviewedParse)) =>
        LET IsValid(e) == ValidEntry(e, ReviewedParse)
            v == SelectSeq(ai_result.entries, IsValid)
            n == MinOf(Len(v), MAX_COMMENTS_PER_FILE)
        IN  /\ Len(inline_posts) = n
            /\ \A k \in 1..n : inline_posts[k].line = v[k].line

\* C15: for a patch with no line that starts with '@@', the returned
\* DiffLine sequence and the returned ValidCommentLines are empty.
C15_NoHeaderGivesNothing ==
    (/\ parse_pc = "returned"
     /\ \A i \in 1..Len(lines) : ~StartsWith(lines[i].text, <<"@", "@">>)) =>
        /\ parse_ret.context_lines = <<>>
        /\ parse_ret.valid_comment_lines = {}

\* C16: the new-file line counter is never negative, after any processed
\* line of any patch.
C16_CounterNeverNegative == new_line_number >= 0

C17_Step ==
    (/\ parse_pc = "loop"
     /\ line_idx' = line_idx + 1
     /\ ~WellFormedHeader(lines[line_idx + 1])
     /\ ~Recorded(lines[line_idx + 1])) =>
        /\ new_line_number' = new_line_number
        /\ context_lines' = context_lines
        /\ valid_comment_lines' = valid_comment_lines

\* C17: processing a line that is neither a well-formed hunk header, nor a
\* '+' line, nor a line that starts with a space leaves the line counter,
\* the DiffLine sequence and ValidCommentLines as they were.
C17_OtherLinesChangeNothing == [][C17_Step]_vars

\* A removed line has just been processed after a header at 10 and an added
\* line: the counter is still 10 and there is still one record.
C17_Witness ==
    /\ parse_pc = "loop"
    /\ lines = <<HunkLine(10), AddedB, RemovedC>>
    /\ line_idx = 3
    /\ new_line_number = 10
    /\ Len(context_lines) = 1
    /\ valid_comment_lines = {10}

\* The parse of the file under review ended in one of the two skips.
NothingToReview ==
    \/ ReviewedParse.context_lines = <<>>
    \/ AddedLines(ReviewedParse.context_lines) = {}

C18_Skipped ==
    (pc \in {"posting", "file_done"} /\ review_state # "read_error" /\ NothingToReview) =>
        /\ pc = "file_done"
        /\ review_state \in {"no_context", "no_added"}
        /\ ai_result = NotCalled
        /\ inline_posts = <<>>
        /\ exit_code = 0

C18_Continues ==
    (pc = "file_done" /\ review_state \in {"no_context", "no_added"}) =>
        /\ exit_code' = 0
        /\ IF file_i < Len(files_to_review)
           THEN pc' = "review" /\ file_i' = file_i + 1
           ELSE pc' = "summary_gen"

\* C18: when the parsed DiffLine sequence of a file is empty or has no
\* record of type 'added', review_file_inline returns without a model call
\* and without an inline post, nothing is raised, and main goes on to the
\* next file, or to the summary after the last one.
C18_NothingToReviewIsSkipped == []C18_Skipped /\ [][C18_Continues]_vars

\* A file whose patch only removes lines was skipped; a second file follows.
C18_Witness ==
    /\ pc = "file_done"
    /\ files_to_review = <<GoneSwift, FooSwift>>
    /\ file_i = 1
    /\ ReviewedParse.context_lines = <<>>
    /\ review_state = "no_context"
    /\ ai_result = NotCalled

\* C19: every accepted suggestion of a file is posted with one request,
\* whatever the responses: when the review of the file has ended there are
\* as many inline posts as accepted suggestions, one for each, in order.
C19_OnePostPerAccepted ==
    ReviewEnded =>
        /\ Len(inline_posts) = Len(valid_suggestions)
        /\ \A k \in 1..Len(inline_posts) : inline_posts[k].line = valid_suggestions[k].line

\* A fetched file the filter of main is to drop.
Dropped(f) ==
    \/ f.status = "removed"
    \/ ~f.has_patch
    \/ f.patch = <<EmptyLine>>
    \/ \E i \in 1..Len(f.filename) : f.filename[i] \in EXCLUDE_PATTERNS

DroppedNames == {files[i].filename : i \in {j \in 1..Len(files) : Dropped(files[j])}}

\* C20: a fetched file whose status is 'removed', whose patch is absent or
\* empty, or whose filename contains an exclude pattern is never reviewed (no
\* model call, no inline post) and is not in the file list the summary is
\* made from.
C20_DroppedFilesAreNeverUsed ==
    LET dropped == DroppedNames
    IN  /\ \A i \in 1..Len(files_to_review) : ~Dropped(files_to_review[i])
        /\ pc \in ReviewStage => ReviewedFile.filename \notin dropped
        /\ \A k \in 1..Len(inline_posts) : inline_posts[k].path \notin dropped
        /\ \A k \in 1..Len(summary_content.files) : summary_content.files[k] \notin dropped
        /\ \A j \in 1..Len(summary_posts) :
              \A k \in 1..Len(summary_posts[j].content.files) :
                  summary_posts[j].content.files[k] \notin dropped

\* A removed file came first in the fetched list: the summary posted at the
\* end of the run is about the other file only.
C20_Witness ==
    /\ pc = "exit"
    /\ files = <<OldSwift, FooSwift>>
    /\ summary_model_calls = 1
    /\ summary_posts # <<>>
    /\ summary_posts[1].content.files = <<FooSwift.filename>>

\* C21: when the patch of a file gives a non-empty ValidCommentLines,
\* review_file_inline does not skip the file: the model is called for it,
\* however many entries come before the first added line.
C21_ValidLinesMeanModelCall ==
    (parse_pc = "reviewed" /\ parse_ret.valid_comment_lines # {}) =>
        /\ review_state \notin {"no_context", "no_added"}
        /\ ai_result # NotCalled

=============================================================================
